---- MODULE Spec2Model ----
(***************************************************************************)
(* Shipment tracking ETL: src/solution_script.py (standard library         *)
(* variant) and src/solution_pandas.py (DataFrame variant).  Both read a   *)
(* list of raw shipment records, flatten each record into one row, derive  *)
(* days_taken and delivery_attempts on Asia/Kolkata calendar dates, write  *)
(* the flat table and then the mean/median/mode summary.                   *)
(*                                                                         *)
(* Strings that the code inspects character by character (the raw          *)
(* timestamps) are sequences of one-character strings.  Instants are whole *)
(* seconds since the Unix epoch plus a millisecond part, so that a         *)
(* 13-digit millisecond string never has to be held as one integer.        *)
(***************************************************************************)
EXTENDS Integers, Sequences, FiniteSets, TLC

VARIABLES impl, raw, pc, i, flat_rows, days_list, attempts_list, df,
          flat_csv, summary_csv, err

vars == <<impl, raw, pc, i, flat_rows, days_list, attempts_list, df,
          flat_csv, summary_csv, err>>

\* ------------------------------------------------------------------------
\* Python values

\* None / an absent key, for values that are otherwise TLA+ strings.
None == "<None>"

\* None / an absent key, for values that are otherwise character sequences
\* (no real string has a multi-character element).
NoStr == <<"<None>">>

DigitChars == <<"0", "1", "2", "3", "4", "5", "6", "7", "8", "9">>

IsDigitChar(c) == \E k \in 1..10 : DigitChars[k] = c

DigitVal(c) == (CHOOSE k \in 1..10 : DigitChars[k] = c) - 1

\* str.isdigit(): every character a digit, and at least one character.
isdigit(s) == Len(s) > 0 /\ \A k \in 1..Len(s) : IsDigitChar(s[k])

\* int(s) of a digits-only string.
RECURSIVE int(_)
int(s) == IF Len(s) = 0 THEN 0
          ELSE 10 * int(SubSeq(s, 1, Len(s) - 1)) + DigitVal(s[Len(s)])

\* Python truthiness of a string-or-None value.
Truthy(s) == s # NoStr /\ s # <<>>

\* ------------------------------------------------------------------------
\* Calendar arithmetic of datetime (proleptic Gregorian), days counted from
\* 1970-01-01.

DaysFromCivil(y, m, d) ==
    LET yy  == IF m <= 2 THEN y - 1 ELSE y
        era == yy \div 400
        yoe == yy - era * 400
        mp  == IF m > 2 THEN m - 3 ELSE m + 9
        doy == (153 * mp + 2) \div 5 + d - 1
        doe == yoe * 365 + yoe \div 4 - yoe \div 100 + doy
    IN  era * 146097 + doe - 719468

CivilFromDays(z) ==
    LET zz  == z + 719468
        era == zz \div 146097
        doe == zz - era * 146097
        yoe == (doe - doe \div 1460 + doe \div 36524 - doe \div 146096) \div 365
        doy == doe - (365 * yoe + yoe \div 4 - yoe \div 100)
        mp  == (5 * doy + 2) \div 153
        d   == doy - (153 * mp + 2) \div 5 + 1
        m   == IF mp < 10 THEN mp + 3 ELSE mp - 9
        y   == yoe + era * 400
    IN  [year |-> IF m <= 2 THEN y + 1 ELSE y, month |-> m, day |-> d]

IsLeap(y) == (y % 4 = 0 /\ y % 100 # 0) \/ y % 400 = 0

DaysInMonth(y, m) ==
    IF m = 2 THEN (IF IsLeap(y) THEN 29 ELSE 28)
    ELSE IF m \in {4, 6, 9, 11} THEN 30 ELSE 31

\* The datetime constructor accepts these fields (else ValueError).
ValidFields(y, mo, d, h, mi, s) ==
    /\ y \in 1..9999 /\ mo \in 1..12
    /\ d >= 1 /\ d <= DaysInMonth(y, IF mo \in 1..12 THEN mo ELSE 1)
    /\ h \in 0..23 /\ mi \in 0..59 /\ s \in 0..59

\* A datetime: wall-clock fields, and for an aware one (aware = TRUE) its
\* UTC offset in seconds.
DateTime(y, mo, d, h, mi, s, ms, aware, off) ==
    [year |-> y, month |-> mo, day |-> d, hour |-> h, minute |-> mi,
     second |-> s, ms |-> ms, aware |-> aware, utcoffset |-> off]

\* Seconds since the epoch of an aware datetime.
timestamp(dt) ==
    DaysFromCivil(dt.year, dt.month, dt.day) * 86400
    + dt.hour * 3600 + dt.minute * 60 + dt.second - dt.utcoffset

\* The aware datetime at `sec` seconds (+ ms) since the epoch, in the zone
\* whose offset is `off`.
fromtimestamp(sec, ms, off) ==
    LET loc == sec + off
        dn  == loc \div 86400
        sod == loc - dn * 86400
        c   == CivilFromDays(dn)
    IN  DateTime(c.year, c.month, c.day, sod \div 3600, (sod % 3600) \div 60,
                 sod % 60, ms, TRUE, off)

\* pytz.timezone("Asia/Kolkata"): UTC+05:30, no daylight saving.
IST == 19800

UTC == 0

\* dt.astimezone(tz) of an aware datetime.
astimezone(dt, off) == fromtimestamp(timestamp(dt), dt.ms, off)

\* dt.replace(tzinfo=utc): the same wall-clock fields, declared UTC.
replace_tzinfo_utc(dt) == [dt EXCEPT !.aware = TRUE, !.utcoffset = UTC]

\* dt.date()
date(dt) == [year |-> dt.year, month |-> dt.month, day |-> dt.day]

\* (a - b).days of two dates
date_diff_days(a, b) ==
    DaysFromCivil(a.year, a.month, a.day) - DaysFromCivil(b.year, b.month, b.day)

\* ------------------------------------------------------------------------
\* dateutil.parser.isoparse, on the two shapes the inputs take:
\*   YYYY-MM-DDTHH:MM:SS, optionally followed by Z or by +HH:MM / -HH:MM;
\*   a digits-only string, which it reads as the basic-format date YYYYMMDD
\*   (the datetime constructor then rejects a month or day out of range).
\* Any other string raises ValueError.

Num2(s, k) == 10 * DigitVal(s[k]) + DigitVal(s[k + 1])

Num4(s, k) == 100 * Num2(s, k) + Num2(s, k + 2)

AllDigitsAt(s, ks) == \A k \in ks : k <= Len(s) /\ IsDigitChar(s[k])

NoDateTime == DateTime(1, 1, 1, 0, 0, 0, 0, FALSE, 0)

ParseError == [ok |-> FALSE, dt |-> NoDateTime]

Parsed(dt) == [ok |-> TRUE, dt |-> dt]

IsExtendedISO(s) ==
    /\ Len(s) >= 19
    /\ AllDigitsAt(s, {1, 2, 3, 4, 6, 7, 9, 10, 12, 13, 15, 16, 18, 19})
    /\ s[5] = "-" /\ s[8] = "-" /\ s[11] = "T" /\ s[14] = ":" /\ s[17] = ":"
    /\ \/ Len(s) = 19
       \/ Len(s) = 20 /\ s[20] = "Z"
       \/ /\ Len(s) = 25 /\ s[20] \in {"+", "-"} /\ s[23] = ":"
          /\ AllDigitsAt(s, {21, 22, 24, 25})

isoparse(s) ==
    IF s = NoStr THEN ParseError
    ELSE IF IsExtendedISO(s) THEN
        LET y == Num4(s, 1)   mo == Num2(s, 6)   d == Num2(s, 9)
            h == Num2(s, 12)  mi == Num2(s, 15)  sec == Num2(s, 18)
            off == IF Len(s) = 25
                   THEN (IF s[20] = "-" THEN -1 ELSE 1)
                        * (Num2(s, 21) * 3600 + Num2(s, 24) * 60)
                   ELSE 0
        IN  IF ValidFields(y, mo, d, h, mi, sec)
            THEN Parsed(DateTime(y, mo, d, h, mi, sec, 0, Len(s) > 19, off))
            ELSE ParseError
    ELSE IF isdigit(s) /\ Len(s) >= 8 THEN
        LET y == Num4(s, 1)  mo == Num2(s, 5)  d == Num2(s, 7)
        IN  IF Len(s) = 8 /\ ValidFields(y, mo, d, 0, 0, 0)
            THEN Parsed(DateTime(y, mo, d, 0, 0, 0, 0, FALSE, 0))
            ELSE ParseError
    ELSE ParseError

\* src/solution_script.py parse_iso_to_ist: isoparse, a naive result declared
\* UTC, then converted to IST.  ValueError (ok = FALSE) when isoparse raises.
parse_iso_to_ist(dt_str) ==
    LET r == isoparse(dt_str)
        dt_utc == IF r.dt.aware THEN r.dt ELSE replace_tzinfo_utc(r.dt)
    IN  IF r.ok THEN Parsed(astimezone(dt_utc, IST)) ELSE ParseError

\* int(ms) / 1000 and int(ms) % 1000 of a digits-only string, computed on
\* the digits so that the 13-digit value is never one integer.
MillisSeconds(ms_str) ==
    IF Len(ms_str) > 3 THEN int(SubSeq(ms_str, 1, Len(ms_str) - 3)) ELSE 0

MillisRest(ms_str) ==
    IF Len(ms_str) > 3 THEN int(SubSeq(ms_str, Len(ms_str) - 2, Len(ms_str)))
    ELSE int(ms_str)

\* src/solution_script.py millis_to_ist; also pd.to_datetime(ms, unit="ms",
\* utc=True).astimezone(IST) of src/solution_pandas.py.
millis_to_ist(ms_str) ==
    astimezone(fromtimestamp(MillisSeconds(ms_str), MillisRest(ms_str), UTC), IST)

\* src/solution_pandas.py parse_to_ist, for ts a string.
parse_to_ist(ts) ==
    IF isdigit(ts) THEN Parsed(millis_to_ist(ts))
    ELSE LET r == isoparse(ts)
             dt_utc == IF r.dt.aware THEN astimezone(r.dt, UTC)
                       ELSE replace_tzinfo_utc(r.dt)
         IN  IF r.ok THEN Parsed(astimezone(dt_utc, IST)) ELSE ParseError

\* src/solution_script.py format_dt: "%Y-%m-%d %H:%M:%S" keeps the wall-clock
\* fields down to the second and drops the millisecond part and the offset.
format_dt(dt) ==
    [year |-> dt.year, month |-> dt.month, day |-> dt.day,
     hour |-> dt.hour, minute |-> dt.minute, second |-> dt.second]

\* ------------------------------------------------------------------------
\* Raw input: the JSON document, a list of shipment objects.

\* Timestamps as they appear under datesOrTimes.
ISO_P_Z     == <<"2","0","2","4","-","0","1","-","1","0","T","2","3",":","5","0",":","0","0","Z">>
ISO_P_OFF   == <<"2","0","2","4","-","0","1","-","1","1","T","0","5",":","2","0",":","0","0","+","0","5",":","3","0">>
ISO_P_NAIVE == <<"2","0","2","4","-","0","1","-","1","0","T","2","3",":","5","0",":","0","0">>
ISO_D_Z     == <<"2","0","2","4","-","0","1","-","1","2","T","0","1",":","0","0",":","0","0","Z">>
ISO_D_LATE  == <<"2","0","2","4","-","0","1","-","1","4","T","2","0",":","0","0",":","0","0","+","0","5",":","3","0">>
ISO_D_EARLY == <<"2","0","2","4","-","0","1","-","0","9","T","2","0",":","0","0",":","0","0","-","0","2",":","0","0">>
\* 1704930600000 ms = 2024-01-10T23:50:00Z, the instant of ISO_P_Z
MS_P        == <<"1","7","0","4","9","3","0","6","0","0","0","0","0">>

\* Event timestamps ($numberLong), named by their IST wall-clock time.
\* 1704911399999 = 2024-01-10T18:29:59.999Z = 10 Jan 23:59:59.999 IST
MS_10_2359 == <<"1","7","0","4","9","1","1","3","9","9","9","9","9">>
\* 1704911400000 = 2024-01-10T18:30:00Z = 11 Jan 00:00:00 IST
MS_11_0000 == <<"1","7","0","4","9","1","1","4","0","0","0","0","0">>
\* 1704947400000 = 2024-01-11T04:30:00Z = 11 Jan 10:00:00 IST
MS_11_1000 == <<"1","7","0","4","9","4","7","4","0","0","0","0","0">>
\* 1705021200000 = 2024-01-12T01:00:00Z = 12 Jan 06:30:00 IST
MS_12_0630 == <<"1","7","0","5","0","2","1","2","0","0","0","0","0">>
\* 1705116600000 = 2024-01-13T03:30:00Z = 13 Jan 09:00:00 IST
MS_13_0900 == <<"1","7","0","5","1","1","6","6","0","0","0","0","0">>

NoAddress == [present |-> FALSE, postalCode |-> None]

Address(pin) == [present |-> TRUE, postalCode |-> pin]

Event(et, ms, addr) == [eventType |-> et, numberLong |-> ms, address |-> addr]

DateEntry(t, v) == [type |-> t, dateOrTimestamp |-> v]

Det(tn, weight, handlings, dates, events, shipPin) ==
    [trackingNumber |-> tn, shipmentWeight |-> weight,
     specialHandlings |-> handlings, datesOrTimes |-> dates,
     events |-> events, shipperAddress |-> [postalCode |-> shipPin]]

\* A shipment object; trackDetails absent, null or [] is <<>> (both variants
\* test only its truth value).
Entry(dets) == [trackDetails |-> dets]

\* Well-formed: PU with a postal code, OD on 10 Jan, 11 Jan (twice), DL on
\* 11 Jan; picked up 11 Jan 05:20 IST, delivered 12 Jan 06:30 IST.
R_OK == Entry(<<Det("TN1", "2.5", <<"COD">>,
    <<DateEntry("ACTUAL_PICKUP", ISO_P_Z), DateEntry("ACTUAL_DELIVERY", ISO_D_Z)>>,
    <<Event("PU", MS_10_2359, Address("400001")),
      Event("OD", MS_10_2359, NoAddress), Event("OD", MS_11_0000, NoAddress),
      Event("OD", MS_11_1000, NoAddress), Event("DL", MS_11_1000, NoAddress)>>,
    "110001")>>)

\* No track-detail block.
R_EMPTY == Entry(<<>>)

\* Both timestamps, an OD event, no DL event.
R_NODL == Entry(<<Det("TN3", "1.0", <<>>,
    <<DateEntry("ACTUAL_PICKUP", ISO_P_OFF), DateEntry("ACTUAL_DELIVERY", ISO_D_Z)>>,
    <<Event("PU", MS_10_2359, Address("400003")),
      Event("OD", MS_11_1000, NoAddress)>>,
    "110003")>>)

\* Two DL events: the first on the OD date (11 Jan), the second on 13 Jan.
R_TWODL == Entry(<<Det("TN4", "3.0", <<"SIGNATURE">>,
    <<DateEntry("ACTUAL_PICKUP", ISO_P_Z), DateEntry("ACTUAL_DELIVERY", ISO_D_LATE)>>,
    <<Event("PU", MS_10_2359, Address("400004")),
      Event("OD", MS_11_0000, NoAddress), Event("DL", MS_11_1000, NoAddress),
      Event("DL", MS_13_0900, NoAddress)>>,
    "110004")>>)

\* No PU event and no OD event; ACTUAL_PICKUP given twice (the last wins).
R_NOPU == Entry(<<Det("TN5", "0.5", <<>>,
    <<DateEntry("ACTUAL_PICKUP", ISO_D_Z), DateEntry("ACTUAL_PICKUP", ISO_P_NAIVE),
      DateEntry("ACTUAL_DELIVERY", ISO_D_LATE)>>,
    <<Event("DL", MS_12_0630, NoAddress)>>,
    "110005")>>)

\* A PU event whose address carries no postal code.
R_PUNOPIN == Entry(<<Det("TN6", "4.0", <<"COD">>,
    <<DateEntry("ACTUAL_PICKUP", ISO_P_OFF), DateEntry("ACTUAL_DELIVERY", ISO_D_LATE)>>,
    <<Event("PU", MS_10_2359, Address(None)),
      Event("OD", MS_12_0630, NoAddress), Event("DL", MS_12_0630, NoAddress)>>,
    "110006")>>)

\* ACTUAL_PICKUP as a millisecond-epoch string.
R_MSPICKUP == Entry(<<Det("TN7", "2.0", <<>>,
    <<DateEntry("ACTUAL_PICKUP", MS_P), DateEntry("ACTUAL_DELIVERY", ISO_D_Z)>>,
    <<Event("PU", MS_10_2359, Address("400007")),
      Event("DL", MS_12_0630, NoAddress)>>,
    "110007")>>)

\* No ACTUAL_PICKUP entry.
R_NOPICKUP == Entry(<<Det("TN8", "1.5", <<>>,
    <<DateEntry("ACTUAL_DELIVERY", ISO_D_Z)>>,
    <<Event("PU", MS_10_2359, Address("400008")),
      Event("DL", MS_12_0630, NoAddress)>>,
    "110008")>>)

\* No tracking number, no weight, an OD event without a timestamp.
R_NOTN == Entry(<<Det(None, None, <<>>,
    <<DateEntry("ACTUAL_PICKUP", ISO_P_Z), DateEntry("ACTUAL_DELIVERY", ISO_D_Z)>>,
    <<Event("PU", MS_10_2359, Address("400009")),
      Event("OD", NoStr, NoAddress), Event("DL", MS_12_0630, NoAddress)>>,
    "110009")>>)

\* Delivered (10 Jan 03:30 IST) before picked up (12 Jan 06:30 IST); no
\* postal code on either the PU event or the shipper address.
R_NEG == Entry(<<Det("TN10", "9.0", <<>>,
    <<DateEntry("ACTUAL_PICKUP", ISO_D_Z), DateEntry("ACTUAL_DELIVERY", ISO_D_EARLY)>>,
    <<Event("PU", MS_10_2359, Address(None)),
      Event("DL", MS_12_0630, NoAddress)>>,
    None)>>)

Records == {R_OK, R_EMPTY, R_NODL, R_TWODL, R_NOPU, R_PUNOPIN, R_MSPICKUP,
            R_NOPICKUP, R_NOTN, R_NEG}

\* Longest input document.
MaxRecords == 3

\* Every document of at most MaxRecords shipment objects.
Inputs == UNION {[1..n -> Records] : n \in 0..MaxRecords}

\* ------------------------------------------------------------------------
\* Helpers shared by the two variants

NoErr == [type |-> "", stage |-> ""]

Raise(type, stage) == [type |-> type, stage |-> stage]

NotWritten == [written |-> FALSE, rows |-> <<>>]

Written(rows) == [written |-> TRUE, rows |-> rows]

\* "COD" if any special handling has type COD, else "Prepaid".
payment_type(det) ==
    IF \E k \in DOMAIN det.specialHandlings : det.specialHandlings[k] = "COD"
    THEN "COD" ELSE "Prepaid"

\* Index of the first event of type et, 0 when there is none.
FirstEvent(events, et) ==
    IF \E k \in DOMAIN events : events[k].eventType = et
    THEN CHOOSE k \in DOMAIN events :
            /\ events[k].eventType = et
            /\ \A j \in 1..(k - 1) : events[j].eventType # et
    ELSE 0

\* dict.get(key, default) of a value that may be absent.
GetOr(v, default) == IF v = None THEN default ELSE v

\* ------------------------------------------------------------------------
\* src/solution_script.py process_shipments, one record

\* dt_map: entries with a type and a non-empty value, the last of a type wins.
RECURSIVE script_dt_map(_)
script_dt_map(dates) ==
    IF dates = <<>> THEN [t \in {} |-> NoStr]
    ELSE LET prev == script_dt_map(SubSeq(dates, 1, Len(dates) - 1))
             d    == dates[Len(dates)]
         IN  IF d.type # None /\ d.type # "" /\ Truthy(d.dateOrTimestamp)
             THEN [t \in DOMAIN prev \cup {d.type} |->
                      IF t = d.type THEN d.dateOrTimestamp ELSE prev[t]]
             ELSE prev

DictGet(m, key) == IF key \in DOMAIN m THEN m[key] ELSE NoStr

\* dl_date = None
NoDate == [year |-> 0, month |-> 0, day |-> 0]

\* The loop over events: an event without a timestamp is passed over, an OD
\* event adds its IST date to od_dates, a DL event overwrites dl_date.
RECURSIVE script_scan_events(_)
script_scan_events(events) ==
    IF events = <<>> THEN [od_dates |-> {}, dl_date |-> NoDate]
    ELSE LET prev == script_scan_events(SubSeq(events, 1, Len(events) - 1))
             ev   == events[Len(events)]
         IN  IF ~Truthy(ev.numberLong) THEN prev
             ELSE IF ev.eventType = "OD"
             THEN [prev EXCEPT !.od_dates = @ \cup {date(millis_to_ist(ev.numberLong))}]
             ELSE IF ev.eventType = "DL"
             THEN [prev EXCEPT !.dl_date = date(millis_to_ist(ev.numberLong))]
             ELSE prev

script_attempts(events) ==
    LET sc == script_scan_events(events)
    IN  Cardinality(sc.od_dates)
        + (IF sc.dl_date # NoDate /\ sc.dl_date \notin sc.od_dates THEN 1 ELSE 0)

\* pu_pin: the postal code of the first PU event's address, else None.
script_pu_pin(events) ==
    LET k == FirstEvent(events, "PU")
    IN  IF k = 0 THEN None ELSE events[k].address.postalCode

\* pu_pin or ship.get("postalCode", "")
script_pickup_pincode(det) ==
    LET pu_pin == script_pu_pin(det.events)
    IN  IF pu_pin # None /\ pu_pin # "" THEN pu_pin
        ELSE GetOr(det.shipperAddress.postalCode, "")

\* The day difference taken on the UTC dates instead of the IST dates.
script_days_utc(p_dt, d_dt) ==
    date_diff_days(date(astimezone(d_dt, UTC)), date(astimezone(p_dt, UTC)))

\* days = (d_dt.date() - p_dt.date()).days
script_days(p_dt, d_dt) == date_diff_days(date(d_dt), date(p_dt))

\* The row dict (the city, state and drop columns are copied through and
\* are left out).
script_row(det, p_dt, d_dt) ==
    [tracking_number       |-> GetOr(det.trackingNumber, ""),
     payment_type          |-> payment_type(det),
     pickup_datetime_ist   |-> format_dt(p_dt),
     delivery_datetime_ist |-> format_dt(d_dt),
     days_taken            |-> script_days(p_dt, d_dt),
     shipment_weight       |-> GetOr(det.shipmentWeight, ""),
     pickup_pincode        |-> script_pickup_pincode(det),
     delivery_attempts     |-> script_attempts(det.events)]

\* The loop body past the track-detail test: "skip" (continue), "raise"
\* (ValueError out of parse_iso_to_ist) or "append".
script_body(det) ==
    LET dt_map       == script_dt_map(det.datesOrTimes)
        pickup_raw   == DictGet(dt_map, "ACTUAL_PICKUP")
        delivery_raw == DictGet(dt_map, "ACTUAL_DELIVERY")
        p            == parse_iso_to_ist(pickup_raw)
        d            == parse_iso_to_ist(delivery_raw)
    IN  IF ~Truthy(pickup_raw) \/ ~Truthy(delivery_raw) THEN [do |-> "skip"]
        ELSE IF ~p.ok \/ ~d.ok THEN [do |-> "raise", type |-> "ValueError"]
        ELSE [do |-> "append", row |-> script_row(det, p.dt, d.dt)]

\* details_list[0] without the test for an empty list: IndexError.
script_step_unguarded(entry) ==
    IF entry.trackDetails = <<>> THEN [do |-> "raise", type |-> "IndexError"]
    ELSE script_body(entry.trackDetails[1])

\* What one pass of the loop body does with `entry`.
script_step(entry) ==
    IF entry.trackDetails = <<>> THEN [do |-> "skip"]
    ELSE script_body(entry.trackDetails[1])

\* ------------------------------------------------------------------------
\* statistics.mean / median / mode

RECURSIVE Sum(_)
Sum(xs) == IF xs = <<>> THEN 0 ELSE xs[1] + Sum(Tail(xs))

RECURSIVE Insert(_, _)
Insert(x, sorted) ==
    IF sorted = <<>> THEN <<x>>
    ELSE IF x <= sorted[1] THEN <<x>> \o sorted
    ELSE <<sorted[1]>> \o Insert(x, Tail(sorted))

RECURSIVE Sorted(_)
Sorted(xs) == IF xs = <<>> THEN <<>> ELSE Insert(xs[1], Sorted(Tail(xs)))

\* A rational result num/den.
mean(xs) == [num |-> Sum(xs), den |-> Len(xs)]

median(xs) ==
    LET srt == Sorted(xs)
        n   == Len(xs)
    IN  IF n % 2 = 1 THEN [num |-> srt[(n + 1) \div 2], den |-> 1]
        ELSE [num |-> srt[n \div 2] + srt[n \div 2 + 1], den |-> 2]

Count(xs, v) == Cardinality({k \in DOMAIN xs : xs[k] = v})

MaxCount(xs) == CHOOSE c \in 1..Len(xs) :
                   /\ \E k \in DOMAIN xs : Count(xs, xs[k]) = c
                   /\ \A k \in DOMAIN xs : Count(xs, xs[k]) <= c

\* More than one value has the highest count.
Tied(xs) == \E j, k \in DOMAIN xs :
                /\ xs[j] # xs[k]
                /\ Count(xs, xs[j]) = MaxCount(xs)
                /\ Count(xs, xs[k]) = MaxCount(xs)

\* The first value met in the data that has the highest count.
mode_first(xs) ==
    xs[CHOOSE k \in DOMAIN xs :
          /\ Count(xs, xs[k]) = MaxCount(xs)
          /\ \A j \in 1..(k - 1) : Count(xs, xs[j]) < MaxCount(xs)]

\* statistics.mode raises StatisticsError on empty data.  On tied data it
\* returns the first mode met (Python 3.8 and later) or raises
\* StatisticsError (before 3.8, raises_on_tie).
mode_raises(xs, raises_on_tie) == xs = <<>> \/ (raises_on_tie /\ Tied(xs))

\* The stats list of write_summary_csv / the stats dict of write_outputs.
stats_raise(days, attempts, raises_on_tie) ==
    \/ days = <<>>
    \/ mode_raises(days, raises_on_tie)
    \/ attempts = <<>>
    \/ mode_raises(attempts, raises_on_tie)

stats_rows(days, attempts) ==
    << [metric |-> "days_taken", mean |-> mean(days), median |-> median(days),
        mode |-> mode_first(days)],
       [metric |-> "delivery_attempts", mean |-> mean(attempts),
        median |-> median(attempts), mode |-> mode_first(attempts)] >>

\* ------------------------------------------------------------------------
\* src/solution_pandas.py flatten_shipments, one record

\* dt_map: a dict comprehension over datesOrTimes, the last of a type wins.
RECURSIVE pandas_dt_map(_)
pandas_dt_map(dates) ==
    IF dates = <<>> THEN [t \in {} |-> NoStr]
    ELSE LET prev == pandas_dt_map(SubSeq(dates, 1, Len(dates) - 1))
             d    == dates[Len(dates)]
         IN  [t \in DOMAIN prev \cup {d.type} |->
                 IF t = d.type THEN d.dateOrTimestamp ELSE prev[t]]

\* od_timestamps: the $numberLong of every OD event, in order (kept as the
\* digit strings whose int() they are).
pandas_od_timestamps(events) ==
    LET od == SelectSeq(events, LAMBDA e : e.eventType = "OD")
    IN  [k \in DOMAIN od |-> od[k].numberLong]

\* The exception the body raises for `details`, "" when it raises none.
pandas_flatten_error(details) ==
    LET events == details.events
        dl     == FirstEvent(events, "DL")
        pu     == FirstEvent(events, "PU")
    IN  IF details.trackingNumber = None THEN "KeyError"
        ELSE IF details.shipmentWeight = None THEN "KeyError"
        ELSE IF \E k \in DOMAIN events :
                   events[k].eventType = "OD" /\ events[k].numberLong = NoStr
        THEN "KeyError"
        ELSE IF dl = 0 THEN "StopIteration"
        ELSE IF events[dl].numberLong = NoStr THEN "KeyError"
        ELSE IF pu # 0 /\ ~events[pu].address.present THEN "KeyError"
        ELSE ""

\* pickup_pincode: the PU event's postal code, None without a PU event.
pandas_pickup_pincode(events) ==
    LET pu == FirstEvent(events, "PU")
    IN  IF pu = 0 THEN None ELSE events[pu].address.postalCode

\* The row dict (the city, state and drop columns are copied through and
\* are left out).
pandas_row(details) ==
    LET dt_map == pandas_dt_map(details.datesOrTimes)
    IN  [tracking_number |-> details.trackingNumber,
         payment_type    |-> payment_type(details),
         pickup_ts       |-> DictGet(dt_map, "ACTUAL_PICKUP"),
         delivery_ts     |-> DictGet(dt_map, "ACTUAL_DELIVERY"),
         od_timestamps   |-> pandas_od_timestamps(details.events),
         dl_timestamp    |-> details.events[FirstEvent(details.events, "DL")].numberLong,
         shipment_weight |-> details.shipmentWeight,
         pickup_pincode  |-> pandas_pickup_pincode(details.events)]

pandas_body(details) ==
    IF pandas_flatten_error(details) # ""
    THEN [do |-> "raise", type |-> pandas_flatten_error(details)]
    ELSE [do |-> "append", row |-> pandas_row(details)]

\* What one pass of the loop body does with `record`.
pandas_step(record) ==
    IF record.trackDetails = <<>> THEN [do |-> "skip"]
    ELSE pandas_body(record.trackDetails[1])

\* ------------------------------------------------------------------------
\* src/solution_pandas.py compute_days_and_attempts

\* What parse_to_ist raises for one cell: None has no isdigit.
pandas_parse_error(ts) ==
    IF ts = NoStr THEN "AttributeError"
    ELSE IF ~parse_to_ist(ts).ok THEN "ValueError"
    ELSE ""

\* Series.apply: the first cell that raises ends it.
RECURSIVE apply_error(_)
apply_error(cells) ==
    IF cells = <<>> THEN ""
    ELSE IF pandas_parse_error(cells[1]) # "" THEN pandas_parse_error(cells[1])
    ELSE apply_error(Tail(cells))

\* The exception compute_days_and_attempts raises on rows, "" for none:
\* an empty frame has no pickup_ts column.
compute_error(rows) ==
    IF rows = <<>> THEN "KeyError"
    ELSE IF apply_error([k \in DOMAIN rows |-> rows[k].pickup_ts]) # ""
    THEN apply_error([k \in DOMAIN rows |-> rows[k].pickup_ts])
    ELSE apply_error([k \in DOMAIN rows |-> rows[k].delivery_ts])

\* (delivery.normalize() - pickup.normalize()).days
pandas_days(pickup_dt_ist, delivery_dt_ist) ==
    date_diff_days(date(delivery_dt_ist), date(pickup_dt_ist))

count_attempts(row) ==
    LET od_dates == {date(millis_to_ist(row.od_timestamps[k])) :
                        k \in DOMAIN row.od_timestamps}
        dl_date  == date(millis_to_ist(row.dl_timestamp))
    IN  Cardinality(od_dates) + (IF dl_date \notin od_dates THEN 1 ELSE 0)

\* The row with its four derived columns.
computed_row(row) ==
    LET p == parse_to_ist(row.pickup_ts).dt
        d == parse_to_ist(row.delivery_ts).dt
    IN  [tracking_number   |-> row.tracking_number,
         payment_type      |-> row.payment_type,
         pickup_dt_ist     |-> p,
         delivery_dt_ist   |-> d,
         days_taken        |-> pandas_days(p, d),
         shipment_weight   |-> row.shipment_weight,
         pickup_pincode    |-> row.pickup_pincode,
         delivery_attempts |-> count_attempts(row)]

Column(rows, name) == [k \in DOMAIN rows |-> rows[k][name]]

\* ------------------------------------------------------------------------
\* The two programs, step by step.  pc names the function main is in; in the
\* two loops i is the index of the next record.

Init ==
    /\ impl \in {"script", "pandas"}
    /\ raw \in Inputs
    /\ pc = IF impl = "script" THEN "process_shipments" ELSE "flatten_shipments"
    /\ i = 1
    /\ flat_rows = <<>> /\ days_list = <<>> /\ attempts_list = <<>>
    /\ df = <<>>
    /\ flat_csv = NotWritten /\ summary_csv = NotWritten
    /\ err = NoErr

\* src/solution_script.py process_shipments: one pass of the loop.  An
\* exception leaves the function, and its three lists are lost.
process_shipments ==
    /\ impl = "script" /\ pc = "process_shipments" /\ i <= Len(raw)
    /\ LET st == script_step(raw[i])
       IN  IF st.do = "append"
           THEN /\ flat_rows' = Append(flat_rows, st.row)
                /\ days_list' = Append(days_list, st.row.days_taken)
                /\ attempts_list' = Append(attempts_list, st.row.delivery_attempts)
                /\ i' = i + 1
                /\ UNCHANGED <<pc, err>>
           ELSE IF st.do = "skip"
           THEN /\ i' = i + 1
                /\ UNCHANGED <<flat_rows, days_list, attempts_list, pc, err>>
           ELSE /\ pc' = "error"
                /\ err' = Raise(st.type, "process_shipments")
                /\ flat_rows' = <<>> /\ days_list' = <<>> /\ attempts_list' = <<>>
                /\ UNCHANGED i
    /\ UNCHANGED <<impl, raw, df, flat_csv, summary_csv>>

\* src/solution_script.py write_flat_csv, called once the loop has returned.
write_flat_csv ==
    /\ impl = "script" /\ pc = "process_shipments" /\ i > Len(raw)
    /\ flat_csv' = Written(flat_rows)
    /\ pc' = "write_summary_csv"
    /\ UNCHANGED <<impl, raw, i, flat_rows, days_list, attempts_list, df,
                   summary_csv, err>>

\* src/solution_script.py write_summary_csv: the stats list is built before
\* the file is opened.
write_summary_csv ==
    /\ impl = "script" /\ pc = "write_summary_csv"
    /\ \E raises_on_tie \in BOOLEAN :
         IF stats_raise(days_list, attempts_list, raises_on_tie)
         THEN /\ pc' = "error"
              /\ err' = Raise("StatisticsError", "write_summary_csv")
              /\ UNCHANGED summary_csv
         ELSE /\ summary_csv' = Written(stats_rows(days_list, attempts_list))
              /\ pc' = "done"
              /\ UNCHANGED err
    /\ UNCHANGED <<impl, raw, i, flat_rows, days_list, attempts_list, df, flat_csv>>

\* src/solution_pandas.py flatten_shipments: one pass of the loop.  An
\* exception leaves the function, and its rows are lost.
flatten_shipments ==
    /\ impl = "pandas" /\ pc = "flatten_shipments" /\ i <= Len(raw)
    /\ LET st == pandas_step(raw[i])
       IN  IF st.do = "append"
           THEN /\ df' = Append(df, st.row)
                /\ i' = i + 1
                /\ UNCHANGED <<pc, err>>
           ELSE IF st.do = "skip"
           THEN /\ i' = i + 1
                /\ UNCHANGED <<df, pc, err>>
           ELSE /\ pc' = "error"
                /\ err' = Raise(st.type, "flatten_shipments")
                /\ df' = <<>>
                /\ UNCHANGED i
    /\ UNCHANGED <<impl, raw, flat_rows, days_list, attempts_list, flat_csv,
                   summary_csv>>

\* src/solution_pandas.py compute_days_and_attempts, called once the loop has
\* returned the frame.
compute_days_and_attempts ==
    /\ impl = "pandas" /\ pc = "flatten_shipments" /\ i > Len(raw)
    /\ IF compute_error(df) # ""
       THEN /\ pc' = "error"
            /\ err' = Raise(compute_error(df), "compute_days_and_attempts")
            /\ df' = <<>>
       ELSE /\ df' = [k \in DOMAIN df |-> computed_row(df[k])]
            /\ pc' = "write_outputs"
            /\ UNCHANGED err
    /\ UNCHANGED <<impl, raw, i, flat_rows, days_list, attempts_list, flat_csv,
                   summary_csv>>

\* src/solution_pandas.py write_outputs: the flat file, then the stats dict,
\* then the summary file.
write_outputs ==
    /\ impl = "pandas" /\ pc = "write_outputs"
    /\ flat_csv' = Written(df)
    /\ \E raises_on_tie \in BOOLEAN :
         LET days     == Column(df, "days_taken")
             attempts == Column(df, "delivery_attempts")
         IN  IF stats_raise(days, attempts, raises_on_tie)
             THEN /\ pc' = "error"
                  /\ err' = Raise("StatisticsError", "write_outputs")
                  /\ UNCHANGED summary_csv
             ELSE /\ summary_csv' = Written(stats_rows(days, attempts))
                  /\ pc' = "done"
                  /\ UNCHANGED err
    /\ UNCHANGED <<impl, raw, i, flat_rows, days_list, attempts_list, df>>

Next ==
    \/ process_shipments
    \/ write_flat_csv
    \/ write_summary_csv
    \/ flatten_shipments
    \/ compute_days_and_attempts
    \/ write_outputs

Spec == Init /\ [][Next]_vars

\* ------------------------------------------------------------------------
\* Vocabulary of the properties

\* An exception left the normalization code (the rows built so far are gone).
NormalizationFailed ==
    pc = "error" /\ err.stage \in {"process_shipments", "flatten_shipments",
                                   "compute_days_and_attempts"}

\* The pandas frame carries its derived columns.
Computed ==
    impl = "pandas" /\ (pc \in {"write_outputs", "done"}
                        \/ (pc = "error" /\ err.stage = "write_outputs"))

\* The flat rows normalization has emitted so far.
EmittedRows ==
    IF impl = "script" THEN flat_rows ELSE IF Computed THEN df ELSE <<>>

\* The two columns handed to the aggregator.
DaysColumn ==
    IF impl = "script" THEN days_list ELSE Column(EmittedRows, "days_taken")

AttemptsColumn ==
    IF impl = "script" THEN attempts_list
    ELSE Column(EmittedRows, "delivery_attempts")

HasDetails(r) == r.trackDetails # <<>>

\* The track-detail block a row was made from (tracking numbers of the input
\* records differ).
SourceDet(row) ==
    CHOOSE det \in {raw[k].trackDetails[1] : k \in {j \in DOMAIN raw : HasDetails(raw[j])}} :
        GetOr(det.trackingNumber, "") = row.tracking_number

\* The raw value of a datesOrTimes type: the last entry of that type.
RawTimestamp(det, t) ==
    LET ks == {k \in DOMAIN det.datesOrTimes : det.datesOrTimes[k].type = t}
    IN  IF ks = {} THEN NoStr
        ELSE det.datesOrTimes[CHOOSE k \in ks : \A j \in ks : j <= k].dateOrTimestamp

HasBothTimestamps(det) ==
    /\ RawTimestamp(det, "ACTUAL_PICKUP") # NoStr
    /\ RawTimestamp(det, "ACTUAL_DELIVERY") # NoStr

\* Target timezone UTC+05:30, in seconds.
TargetOffset == 5 * 3600 + 30 * 60

\* The target-timezone day number (days since 1970-01-01) of an instant
\* given in seconds since the epoch.
LocalDay(sec) == (sec + TargetOffset) \div 86400

\* The instant a raw timestamp denotes: a digits-only string is milliseconds
\* since the epoch, any other string ISO-8601 (UTC without an offset).
InstantOf(ts) ==
    IF isdigit(ts) THEN MillisSeconds(ts) ELSE timestamp(isoparse(ts).dt)

\* A raw timestamp in one of the two accepted encodings.
ValidTimestamp(ts) == ts # NoStr /\ (isdigit(ts) \/ IsExtendedISO(ts))

\* Day number and second of the day of a formatted wall-clock timestamp.
WallDay(f) == DaysFromCivil(f.year, f.month, f.day)

WallSeconds(f) == WallDay(f) * 86400 + f.hour * 3600 + f.minute * 60 + f.second

RowPickup(row) ==
    IF impl = "script" THEN row.pickup_datetime_ist ELSE format_dt(row.pickup_dt_ist)

RowDelivery(row) ==
    IF impl = "script" THEN row.delivery_datetime_ist
    ELSE format_dt(row.delivery_dt_ist)

Rows == {EmittedRows[k] : k \in DOMAIN EmittedRows}

\* ------------------------------------------------------------------------
\* Properties

\* The events of a record that carry a timestamp and have type et.
TimedEvents(det, et) ==
    {k \in DOMAIN det.events :
        det.events[k].eventType = et /\ det.events[k].numberLong # NoStr}

ODDays(det) ==
    {LocalDay(MillisSeconds(det.events[k].numberLong)) : k \in TimedEvents(det, "OD")}

FirstDLDay(det) ==
    LocalDay(MillisSeconds(
        det.events[CHOOSE k \in TimedEvents(det, "DL") :
                      \A j \in TimedEvents(det, "DL") : k <= j].numberLong))

AttemptsOf(det) ==
    Cardinality(ODDays(det)) + (IF FirstDLDay(det) \in ODDays(det) THEN 0 ELSE 1)

\* C1: every emitted row's delivery_attempts is the number of distinct
\* target-timezone dates of its OD events, plus one exactly when the date of
\* the record's first DL event is not among them.
C1_AttemptsFromFirstDL ==
    \A row \in Rows :
        TimedEvents(SourceDet(row), "DL") # {}
            => row.delivery_attempts = AttemptsOf(SourceDet(row))

\* A record with a track-detail block and both timestamps but no DL event.
NoDLRecord(r) ==
    /\ HasDetails(r)
    /\ HasBothTimestamps(r.trackDetails[1])
    /\ \A k \in DOMAIN r.trackDetails[1].events :
          r.trackDetails[1].events[k].eventType # "DL"

\* C2: a record with both timestamps and no DL event is a hard data error:
\* once the loop has taken it, an error has been raised, and no emitted row
\* comes from such a record.
C2_NoDLIsError ==
    /\ \A k \in DOMAIN raw :
          (NoDLRecord(raw[k]) /\ k < i) => err # NoErr
    /\ \A row \in Rows : \A k \in DOMAIN raw :
          NoDLRecord(raw[k]) => SourceDet(row) # raw[k].trackDetails[1]

\* C3: a summary is written only when neither column has a tied mode, and
\* the mode it reports is the strictly most frequent value.
C3_TiedModeFails ==
    summary_csv.written =>
        /\ ~Tied(DaysColumn) /\ ~Tied(AttemptsColumn)
        /\ \A v \in {DaysColumn[k] : k \in DOMAIN DaysColumn} :
              v # summary_csv.rows[1].mode
                 => Count(DaysColumn, v) < Count(DaysColumn, summary_csv.rows[1].mode)
        /\ \A v \in {AttemptsColumn[k] : k \in DOMAIN AttemptsColumn} :
              v # summary_csv.rows[2].mode
                 => Count(AttemptsColumn, v) < Count(AttemptsColumn, summary_csv.rows[2].mode)

\* Aggregation has failed: the statistics raised.
AggregationFailed == pc = "error" /\ err.type = "StatisticsError"

\* C4: when aggregation fails, neither the flat file nor the summary file
\* has been written.
C4_NoPartialOutput ==
    AggregationFailed => ~flat_csv.written /\ ~summary_csv.written

\* Every input record has been taken and none produced a row.
ZeroSurvived ==
    /\ i > Len(raw)
    /\ \A k \in DOMAIN raw :
          (IF impl = "script" THEN script_step(raw[k]) ELSE pandas_step(raw[k])).do = "skip"

\* C5: when zero shipments survive normalization, the run ends in the
\* aggregation step with the empty-input error of the statistics, and no
\* summary row is written.
C5_EmptyInputError ==
    (ZeroSurvived /\ pc \in {"done", "error"}) =>
        /\ pc = "error"
        /\ err.type = "StatisticsError"
        /\ err.stage \in {"write_summary_csv", "write_outputs"}
        /\ ~summary_csv.written

\* A record with every field the normalizer assumes: a tracking number, a
\* weight, both timestamps in an accepted encoding, timestamps on all its
\* events, a DL event, and an address on its PU event.
WellFormed(r) ==
    /\ HasDetails(r)
    /\ LET det == r.trackDetails[1]
       IN  /\ det.trackingNumber # None /\ det.shipmentWeight # None
           /\ ValidTimestamp(RawTimestamp(det, "ACTUAL_PICKUP"))
           /\ ValidTimestamp(RawTimestamp(det, "ACTUAL_DELIVERY"))
           /\ \A k \in DOMAIN det.events : det.events[k].numberLong # NoStr
           /\ TimedEvents(det, "DL") # {}
           /\ \A k \in DOMAIN det.events :
                 det.events[k].eventType = "PU" => det.events[k].address.present

\* The row the variant emits for record r when r is the whole input; no row
\* (NoRow) when it emits none.
NoRow == [tracking_number |-> None]

AloneRow(r) ==
    IF impl = "script"
    THEN (IF script_step(r).do = "append" THEN script_step(r).row ELSE NoRow)
    ELSE (IF pandas_step(r).do = "append"
             /\ compute_error(<<pandas_step(r).row>>) = ""
          THEN computed_row(pandas_step(r).row) ELSE NoRow)

\* C6: once normalization is over, every well-formed record of the input
\* has the row it has when processed alone among the emitted rows, whatever
\* the other records lack.
C6_RecordsIsolated ==
    ((i > Len(raw) \/ pc = "error")
       /\ (impl = "pandas" => pc # "flatten_shipments")
       /\ \A k \in DOMAIN raw : WellFormed(raw[k]) => AloneRow(raw[k]) # NoRow)
    => \A k \in DOMAIN raw :
          WellFormed(raw[k]) => AloneRow(raw[k]) \in Rows

\* The pickup postal code the record calls for: the PU event's when it has
\* one, else the shipper address's.
PickupPinOf(det) ==
    LET pu == FirstEvent(det.events, "PU")
    IN  IF pu # 0 /\ det.events[pu].address.postalCode \notin {None, ""}
        THEN det.events[pu].address.postalCode
        ELSE det.shipperAddress.postalCode

\* C7: every emitted row's pickup_pincode is the PU event's postal code when
\* that event has one, else the shipper's; it is null or empty only when
\* neither has one.
C7_PickupPincodeFallback ==
    \A row \in Rows :
        IF PickupPinOf(SourceDet(row)) \in {None, ""}
        THEN row.pickup_pincode \in {None, ""}
        ELSE row.pickup_pincode = PickupPinOf(SourceDet(row))

\* A record survives when it has a track-detail block (and, in the script
\* variant, both timestamps).
Survives(r) ==
    HasDetails(r) /\ (impl = "script" => HasBothTimestamps(r.trackDetails[1]))

SurvivorNumbers ==
    LET sv == SelectSeq(SubSeq(raw, 1, i - 1), Survives)
    IN  [k \in DOMAIN sv |-> GetOr(sv[k].trackDetails[1].trackingNumber, "")]

\* The rows built so far (in the pandas variant before and after the derived
\* columns are added).
BuiltRows == IF impl = "script" THEN flat_rows ELSE df

\* C8: a record without a track-detail block is passed over without an
\* error and adds no row and no column value; the rows, the days column and
\* the attempts column have one entry per surviving record, in input order.
C8_EmptyDetailsSkipped ==
    /\ Len(flat_rows) = Len(days_list) /\ Len(days_list) = Len(attempts_list)
    /\ Len(DaysColumn) = Len(EmittedRows) /\ Len(AttemptsColumn) = Len(EmittedRows)
    /\ \A k \in DOMAIN EmittedRows :
          /\ DaysColumn[k] = EmittedRows[k].days_taken
          /\ AttemptsColumn[k] = EmittedRows[k].delivery_attempts
    /\ ~NormalizationFailed =>
          [k \in DOMAIN BuiltRows |-> BuiltRows[k].tracking_number] = SurvivorNumbers
    /\ (pc = "error" /\ err.stage \in {"process_shipments", "flatten_shipments"})
          => HasDetails(raw[i])

\* An input of three records, the middle one without a track-detail block,
\* whose two other records both have their rows emitted.
C8_Witness ==
    /\ Len(raw) = 3 /\ ~HasDetails(raw[2])
    /\ i > Len(raw)
    /\ Len(EmittedRows) = 2 /\ Len(DaysColumn) = 2 /\ Len(AttemptsColumn) = 2

\* C9: pickup and delivery values are normalized by encoding: digits-only is
\* milliseconds since the epoch, anything else ISO-8601; a value in either
\* encoding never fails to parse, and every emitted row shows the instant
\* its raw value denotes, in the target timezone (so a millisecond string
\* and the ISO string of the same instant give the same timestamp).
C9_TimestampAutoDetect ==
    /\ (pc = "error" /\ err.stage = "process_shipments" /\ err.type = "ValueError")
          => ~(/\ ValidTimestamp(RawTimestamp(raw[i].trackDetails[1], "ACTUAL_PICKUP"))
               /\ ValidTimestamp(RawTimestamp(raw[i].trackDetails[1], "ACTUAL_DELIVERY")))
    /\ (pc = "error" /\ err.stage = "compute_days_and_attempts" /\ err.type = "ValueError")
          => \E k \in DOMAIN raw : HasDetails(raw[k]) /\
                ~(/\ ValidTimestamp(RawTimestamp(raw[k].trackDetails[1], "ACTUAL_PICKUP"))
                  /\ ValidTimestamp(RawTimestamp(raw[k].trackDetails[1], "ACTUAL_DELIVERY")))
    /\ \A row \in Rows :
          /\ WallSeconds(RowPickup(row))
               = InstantOf(RawTimestamp(SourceDet(row), "ACTUAL_PICKUP")) + TargetOffset
          /\ WallSeconds(RowDelivery(row))
               = InstantOf(RawTimestamp(SourceDet(row), "ACTUAL_DELIVERY")) + TargetOffset

\* C10: every emitted row's days_taken is the difference of the calendar
\* dates of its delivery and pickup timestamps in the target timezone: of
\* the two timestamps the row shows, and, for ISO-8601 raw values, of the
\* instants they denote; pickup 2024-01-10T23:50:00Z and delivery
\* 2024-01-12T01:00:00Z give 1.  The value is not clamped.
C10_DaysTakenLocalDates ==
    \A row \in Rows :
        LET p == RawTimestamp(SourceDet(row), "ACTUAL_PICKUP")
            d == RawTimestamp(SourceDet(row), "ACTUAL_DELIVERY")
        IN  /\ row.days_taken = WallDay(RowDelivery(row)) - WallDay(RowPickup(row))
            /\ (IsExtendedISO(p) /\ IsExtendedISO(d))
                  => row.days_taken = LocalDay(InstantOf(d)) - LocalDay(InstantOf(p))
            /\ (p = ISO_P_Z /\ d = ISO_D_Z) => row.days_taken = 1

\* Rows emitted for the example (days_taken 1, where the UTC dates are two
\* days apart) and for a delivery dated before its pickup (negative).
C10_Witness ==
    /\ \E row \in Rows :
          /\ RawTimestamp(SourceDet(row), "ACTUAL_PICKUP") = ISO_P_Z
          /\ RawTimestamp(SourceDet(row), "ACTUAL_DELIVERY") = ISO_D_Z
          /\ row.days_taken = 1
    /\ \E row \in Rows : row.days_taken < 0

====
